---------------------------- MODULE Spec2Model ----------------------------
(***************************************************************************)
(* megacalc: the expression-to-task compiler and the dependency-driven     *)
(* task scheduler of internal/service (Service), the request layer of      *)
(* internal/api (Handler) and the worker loop of internal/agent (Agent).   *)
(*                                                                         *)
(* Conventions of the model                                                *)
(*   - a Go string is a sequence of one-character strings;                 *)
(*   - a float64 is an exact rational [n |-> numerator, d |-> denominator] *)
(*     in lowest terms with d > 0 (the arithmetic of the workers is taken  *)
(*     to be exact; the decimal rendering "%f" is modelled digit-exactly); *)
(*   - a *float64 is <<>> (nil) or <<v>>;                                  *)
(*   - a task id "task_<k>" is the integer k, an expression id (a fresh    *)
(*     uuid) is the integer number of the submission;                      *)
(*   - an operand slot (Task.Arg1 / Task.Arg2, a Go string) is a record    *)
(*     [k, chars, id, micro]: k = "tok" a numeric token copied from the    *)
(*     expression text (chars), k = "task" the id of another task (id),    *)
(*     k = "f" the text fmt.Sprintf("%f", v) wrote (micro = the rendered   *)
(*     number in millionths).                                              *)
(***************************************************************************)
EXTENDS Integers, Sequences, FiniteSets, TLC

-----------------------------------------------------------------------------
(* float64 values as exact rationals *)

Abs(x) == IF x < 0 THEN -x ELSE x

RECURSIVE GCD(_, _)
GCD(a, b) == IF b = 0 THEN a ELSE GCD(b, a % b)

\* the rational n/d in lowest terms, d > 0
Rat(n, d) ==
  LET s == IF d < 0 THEN -1 ELSE 1
      g == GCD(Abs(n), Abs(d))
  IN  [n |-> (s * n) \div g, d |-> (s * d) \div g]

Zero == Rat(0, 1)

RatAdd(a, b) ==
  LET g == GCD(a.d, b.d)
  IN  Rat(a.n * (b.d \div g) + b.n * (a.d \div g), (a.d \div g) * b.d)

RatNeg(a) == [n |-> -a.n, d |-> a.d]

RatMul(a, b) ==
  LET g1 == GCD(Abs(a.n), b.d)
      g2 == GCD(Abs(b.n), a.d)
  IN  Rat((a.n \div g1) * (b.n \div g2), (a.d \div g2) * (b.d \div g1))

RatInv(a) == Rat(a.d, a.n)

\* fmt's default precision of the verb %f: six digits after the point
FracDigits == 6

RECURSIVE Pow10(_)
Pow10(k) == IF k = 0 THEN 1 ELSE 10 * Pow10(k - 1)

Scale == Pow10(FracDigits)

\* fmt.Sprintf("%f", v): v rounded to six decimals (ties to even), as the
\* signed number of millionths the rendered text denotes
FormatF(v) ==
  LET a  == Abs(v.n)
      q  == a \div v.d
      r  == a % v.d
      \* r / v.d in millionths: whole part and remainder
      fq == IF Scale % v.d = 0 THEN r * (Scale \div v.d) ELSE (r * Scale) \div v.d
      fr == IF Scale % v.d = 0 THEN 0 ELSE (r * Scale) % v.d
      up == \/ 2 * fr > v.d
            \/ 2 * fr = v.d /\ fq % 2 = 1
      m  == q * Scale + fq + (IF up THEN 1 ELSE 0)
  IN  IF v.n < 0 THEN -m ELSE m

-----------------------------------------------------------------------------
(* characters and tokens *)

Digits == <<"0", "1", "2", "3", "4", "5", "6", "7", "8", "9">>

IsDigit(c) == \E i \in 1..Len(Digits) : Digits[i] = c

DigitVal(c) == (CHOOSE i \in 1..Len(Digits) : Digits[i] = c) - 1

\* isOperator
isOperator(token) ==
  token = <<"+">> \/ token = <<"-">> \/ token = <<"*">> \/ token = <<"/">>

\* strings.ReplaceAll(expression, " ", "")
RECURSIVE StripSpaces(_)
StripSpaces(s) ==
  IF s = <<>> THEN <<>>
  ELSE IF Head(s) = " " THEN StripSpaces(Tail(s))
       ELSE <<Head(s)>> \o StripSpaces(Tail(s))

\* tokenize, from character i on, with the tokens and the number accumulated
\* so far; the result is [err, tokens]
RECURSIVE tokenizeFrom(_, _, _, _)
tokenizeFrom(expression, i, tokens, currentNumber) ==
  IF i > Len(expression)
  THEN [err    |-> "",
        tokens |-> IF currentNumber # <<>> THEN Append(tokens, currentNumber)
                   ELSE tokens]
  ELSE LET char    == expression[i]
           flushed == IF currentNumber # <<>> THEN Append(tokens, currentNumber)
                      ELSE tokens
       IN  IF IsDigit(char) \/ char = "."
           THEN tokenizeFrom(expression, i + 1, tokens, Append(currentNumber, char))
           ELSE IF isOperator(<<char>>) \/ char = "(" \/ char = ")"
           THEN tokenizeFrom(expression, i + 1, Append(flushed, <<char>>), <<>>)
           ELSE [err |-> "invalid character in expression", tokens |-> <<>>]

tokenize(expression) == tokenizeFrom(expression, 1, <<>>, <<>>)

\* strconv.ParseFloat on a text of digits and points (every other text the
\* model hands it is an operator or a parenthesis, which do not parse):
\* [ok, val]
NumDots(token) == Cardinality({i \in 1..Len(token) : token[i] = "."})

NumDigits(token) == Cardinality({i \in 1..Len(token) : IsDigit(token[i])})

RECURSIVE DigitsValue(_, _, _)
DigitsValue(token, i, acc) ==
  IF i > Len(token) THEN acc
  ELSE IF token[i] = "." THEN DigitsValue(token, i + 1, acc)
       ELSE DigitsValue(token, i + 1, 10 * acc + DigitVal(token[i]))

DotPos(token) ==
  IF NumDots(token) = 0 THEN Len(token) + 1
  ELSE CHOOSE i \in 1..Len(token) : token[i] = "."

ParseFloat(token) ==
  IF /\ \A i \in 1..Len(token) : IsDigit(token[i]) \/ token[i] = "."
     /\ NumDots(token) <= 1
     /\ NumDigits(token) >= 1
  THEN [ok  |-> TRUE,
        val |-> Rat(DigitsValue(token, 1, 0),
                    Pow10(Len(token) - DotPos(token) + (IF NumDots(token) = 0 THEN 1 ELSE 0)))]
  ELSE [ok |-> FALSE, val |-> Zero]

\* isNumber
isNumber(token) == ParseFloat(token).ok

\* getPrecedence
getPrecedence(operator) ==
  IF operator = <<"+">> \/ operator = <<"-">> THEN 1
  ELSE IF operator = <<"*">> \/ operator = <<"/">> THEN 2
  ELSE 0

\* hasHigherPrecedence with a strict comparison
hasHigherPrecedence_Strict(op1, op2) == getPrecedence(op1) > getPrecedence(op2)

\* hasHigherPrecedence
hasHigherPrecedence(op1, op2) == getPrecedence(op1) >= getPrecedence(op2)

Last(s) == s[Len(s)]

Front(s) == SubSeq(s, 1, Len(s) - 1)

\* the inner loop of shuntingYard for an operator token: pop operators of
\* higher or equal precedence to the output; [output, operatorStack]
RECURSIVE popHigher(_, _, _)
popHigher(output, operatorStack, token) ==
  IF /\ Len(operatorStack) > 0
     /\ Last(operatorStack) # <<"(">>
     /\ hasHigherPrecedence(Last(operatorStack), token)
  THEN popHigher(Append(output, Last(operatorStack)), Front(operatorStack), token)
  ELSE [output |-> output, operatorStack |-> operatorStack]

RECURSIVE popToParen(_, _)

\* the pop loop that does not stop at "("
popToParen_ThroughParen(output, operatorStack) ==
  IF Len(operatorStack) > 0
  THEN popToParen(Append(output, Last(operatorStack)), Front(operatorStack))
  ELSE [output |-> output, operatorStack |-> operatorStack]

\* the inner loop of shuntingYard for ")" and the final loop: pop to the
\* output until "(" or the bottom of the stack
popToParen(output, operatorStack) ==
  IF Len(operatorStack) > 0 /\ Last(operatorStack) # <<"(">>
  THEN popToParen(Append(output, Last(operatorStack)), Front(operatorStack))
  ELSE [output |-> output, operatorStack |-> operatorStack]

\* shuntingYard, from token i on: [err, output]
RECURSIVE shuntingYardFrom(_, _, _, _)
shuntingYardFrom(tokens, i, output, operatorStack) ==
  IF i > Len(tokens)
  THEN LET p == popToParen(output, operatorStack)
       IN  IF Len(p.operatorStack) > 0
           THEN [err |-> "mismatched parentheses", output |-> <<>>]
           ELSE [err |-> "", output |-> p.output]
  ELSE LET token == tokens[i]
       IN  IF isNumber(token)
           THEN shuntingYardFrom(tokens, i + 1, Append(output, token), operatorStack)
           ELSE IF isOperator(token)
           THEN LET p == popHigher(output, operatorStack, token)
                IN  shuntingYardFrom(tokens, i + 1, p.output,
                                     Append(p.operatorStack, token))
           ELSE IF token = <<"(">>
           THEN shuntingYardFrom(tokens, i + 1, output, Append(operatorStack, token))
           ELSE IF token = <<")">>
           THEN LET p == popToParen(output, operatorStack)
                IN  IF Len(p.operatorStack) = 0
                    THEN [err |-> "mismatched parentheses", output |-> <<>>]
                    ELSE shuntingYardFrom(tokens, i + 1, p.output,
                                          Front(p.operatorStack))
           \* no case of the switch matches: the token is skipped
           ELSE shuntingYardFrom(tokens, i + 1, output, operatorStack)

shuntingYard(tokens) == shuntingYardFrom(tokens, 1, <<>>, <<>>)

-----------------------------------------------------------------------------
(* the Service: tasks and operand slots *)

\* a numeric token of the expression text in an operand slot
TokArg(chars) == [k |-> "tok", chars |-> chars, id |-> 0, micro |-> 0]

\* the id "task_<id>" in an operand slot or on the build stack
TaskArg(id) == [k |-> "task", chars |-> <<>>, id |-> id, micro |-> 0]

\* the text fmt.Sprintf("%f", result) in an operand slot
FmtArg(result) == [k |-> "f", chars |-> <<>>, id |-> 0, micro |-> FormatF(result)]

\* _, isTaskID := s.tasks[arg]
isTaskID(tasks, arg) == arg.k = "task" /\ arg.id \in DOMAIN tasks

\* the durations GetOperationTimes reads, at their defaults
DefaultOperationTimeMs == 1000

opTimes ==
  [Addition |-> DefaultOperationTimeMs, Subtraction |-> DefaultOperationTimeMs,
   Multiplication |-> DefaultOperationTimeMs, Division |-> DefaultOperationTimeMs]

\* the switch of createTask on the operation
operationTime(operation) ==
  IF operation = "+" THEN opTimes.Addition
  ELSE IF operation = "-" THEN opTimes.Subtraction
  ELSE IF operation = "*" THEN opTimes.Multiplication
  ELSE IF operation = "/" THEN opTimes.Division
  ELSE 0

\* NewService: the empty store.  s.taskQueue is never read or written after
\* construction and is left out.
NewService ==
  [expressions         |-> <<>>,
   tasks               |-> <<>>,
   completedTasks      |-> {},
   readyTasks          |-> {},
   taskIDCounter       |-> 0,
   dependencyGraph     |-> <<>>,
   reverseDependencies |-> <<>>]

\* s.reverseDependencies[id] with arg appended when arg is a task id
addReverse(tasks, rev, arg, taskID) ==
  IF isTaskID(tasks, arg)
  THEN [rev EXCEPT ![arg.id] = Append(@, taskID)]
  ELSE rev

\* createTask taking the dependency ids one too high
createTask_DepsOffByOne(s, exprID, arg1, arg2, operation) ==
  LET taskID == s.taskIDCounter + 1
      deps   == (IF isTaskID(s.tasks, arg1) THEN <<arg1.id + 1>> ELSE <<>>)
                \o (IF isTaskID(s.tasks, arg2) THEN <<arg2.id + 1>> ELSE <<>>)
      task   == [ID            |-> taskID,
                 ExpressionID  |-> exprID,
                 Arg1          |-> arg1,
                 Arg2          |-> arg2,
                 Operation     |-> operation,
                 OperationTime |-> operationTime(operation),
                 Result        |-> <<>>,
                 Status        |-> "pending",
                 Dependencies  |-> deps]
      rev0   == Append(s.reverseDependencies, <<>>)
      rev1   == addReverse(s.tasks, rev0, arg1, taskID)
      rev2   == addReverse(s.tasks, rev1, arg2, taskID)
  IN  [s EXCEPT !.taskIDCounter       = taskID,
                !.tasks               = Append(@, task),
                !.dependencyGraph     = Append(@, deps),
                !.reverseDependencies = rev2]

\* createTask: the store with the new task "task_<taskIDCounter+1>"
createTask(s, exprID, arg1, arg2, operation) ==
  LET taskID == s.taskIDCounter + 1
      deps   == (IF isTaskID(s.tasks, arg1) THEN <<arg1.id>> ELSE <<>>)
                \o (IF isTaskID(s.tasks, arg2) THEN <<arg2.id>> ELSE <<>>)
      task   == [ID            |-> taskID,
                 ExpressionID  |-> exprID,
                 Arg1          |-> arg1,
                 Arg2          |-> arg2,
                 Operation     |-> operation,
                 OperationTime |-> operationTime(operation),
                 Result        |-> <<>>,
                 Status        |-> "pending",
                 Dependencies  |-> deps]
      rev0   == Append(s.reverseDependencies, <<>>)
      rev1   == addReverse(s.tasks, rev0, arg1, taskID)
      rev2   == addReverse(s.tasks, rev1, arg2, taskID)
  IN  [s EXCEPT !.taskIDCounter       = taskID,
                !.tasks               = Append(@, task),
                !.dependencyGraph     = Append(@, deps),
                !.reverseDependencies = rev2]

\* the last loop of createTasksFromPostfix without the test of the operands
markReady_All(s, exprID) ==
  [s EXCEPT !.readyTasks =
     @ \cup {taskID \in DOMAIN s.tasks : s.tasks[taskID].ExpressionID = exprID}]

\* the last loop of createTasksFromPostfix: the tasks of exprID with no task
\* id in either operand slot
markReady(s, exprID) ==
  [s EXCEPT !.readyTasks =
     @ \cup {taskID \in DOMAIN s.tasks :
               /\ s.tasks[taskID].ExpressionID = exprID
               /\ ~isTaskID(s.tasks, s.tasks[taskID].Arg1)
               /\ ~isTaskID(s.tasks, s.tasks[taskID].Arg2)}]

RECURSIVE createTasksFrom(_, _, _, _, _)

\* createTasksFromPostfix taking the top of the stack as the first operand
createTasksFrom_SwapsOperands(s, exprID, postfix, i, stack) ==
  IF i > Len(postfix)
  THEN IF Len(stack) # 1
       THEN [err |-> "invalid expression: too many values left on stack", s |-> s]
       ELSE [err |-> "", s |-> markReady(s, exprID)]
  ELSE LET token == postfix[i]
       IN  IF isOperator(token)
           THEN IF Len(stack) < 2
                THEN [err |-> "invalid expression: not enough operands for operator",
                      s |-> s]
                ELSE LET arg1 == stack[Len(stack)]
                         arg2 == stack[Len(stack) - 1]
                         s1   == createTask(s, exprID, arg1, arg2, token[1])
                     IN  createTasksFrom(s1, exprID, postfix, i + 1,
                           Append(SubSeq(stack, 1, Len(stack) - 2),
                                  TaskArg(s1.taskIDCounter)))
           ELSE createTasksFrom(s, exprID, postfix, i + 1,
                                Append(stack, TokArg(token)))

\* createTasksFromPostfix running its last loop before the test of the stack
createTasksFrom_ReadyOnError(s, exprID, postfix, i, stack) ==
  IF i > Len(postfix)
  THEN IF Len(stack) # 1
       THEN [err |-> "invalid expression: too many values left on stack",
             s |-> markReady(s, exprID)]
       ELSE [err |-> "", s |-> markReady(s, exprID)]
  ELSE LET token == postfix[i]
       IN  IF isOperator(token)
           THEN IF Len(stack) < 2
                THEN [err |-> "invalid expression: not enough operands for operator",
                      s |-> s]
                ELSE LET arg2 == stack[Len(stack)]
                         arg1 == stack[Len(stack) - 1]
                         s1   == createTask(s, exprID, arg1, arg2, token[1])
                     IN  createTasksFrom(s1, exprID, postfix, i + 1,
                           Append(SubSeq(stack, 1, Len(stack) - 2),
                                  TaskArg(s1.taskIDCounter)))
           ELSE createTasksFrom(s, exprID, postfix, i + 1,
                                Append(stack, TokArg(token)))

\* createTasksFromPostfix pushing the id of a new task twice
createTasksFrom_PushesTwice(s, exprID, postfix, i, stack) ==
  IF i > Len(postfix)
  THEN IF Len(stack) # 1
       THEN [err |-> "invalid expression: too many values left on stack", s |-> s]
       ELSE [err |-> "", s |-> markReady(s, exprID)]
  ELSE LET token == postfix[i]
       IN  IF isOperator(token)
           THEN IF Len(stack) < 2
                THEN [err |-> "invalid expression: not enough operands for operator",
                      s |-> s]
                ELSE LET arg2 == stack[Len(stack)]
                         arg1 == stack[Len(stack) - 1]
                         s1   == createTask(s, exprID, arg1, arg2, token[1])
                     IN  createTasksFrom(s1, exprID, postfix, i + 1,
                           Append(Append(SubSeq(stack, 1, Len(stack) - 2),
                                         TaskArg(s1.taskIDCounter)),
                                  TaskArg(s1.taskIDCounter)))
           ELSE createTasksFrom(s, exprID, postfix, i + 1,
                                Append(stack, TokArg(token)))

\* createTasksFromPostfix, from token i on with the given stack: [err, s]
createTasksFrom(s, exprID, postfix, i, stack) ==
  IF i > Len(postfix)
  THEN IF Len(stack) # 1
       THEN [err |-> "invalid expression: too many values left on stack", s |-> s]
       ELSE [err |-> "", s |-> markReady(s, exprID)]
  ELSE LET token == postfix[i]
       IN  IF isOperator(token)
           THEN IF Len(stack) < 2
                THEN [err |-> "invalid expression: not enough operands for operator",
                      s |-> s]
                ELSE LET arg2 == stack[Len(stack)]
                         arg1 == stack[Len(stack) - 1]
                         s1   == createTask(s, exprID, arg1, arg2, token[1])
                     IN  createTasksFrom(s1, exprID, postfix, i + 1,
                           Append(SubSeq(stack, 1, Len(stack) - 2),
                                  TaskArg(s1.taskIDCounter)))
           ELSE createTasksFrom(s, exprID, postfix, i + 1,
                                Append(stack, TokArg(token)))

\* createTasksFromPostfix giving back the task ids of a failed build
createTasksFromPostfix_ResetsCounter(s, exprID, postfix) ==
  LET r == createTasksFrom(s, exprID, postfix, 1, <<>>)
  IN  IF r.err # ""
      THEN [err |-> r.err, s |-> [r.s EXCEPT !.taskIDCounter = s.taskIDCounter]]
      ELSE r

createTasksFromPostfix(s, exprID, postfix) ==
  createTasksFrom(s, exprID, postfix, 1, <<>>)

\* parseExpression: [err, s]
parseExpression(s, exprID, expression) ==
  LET t == tokenize(expression)
  IN  IF t.err # "" THEN [err |-> t.err, s |-> s]
      ELSE LET y == shuntingYard(t.tokens)
           IN  IF y.err # "" THEN [err |-> y.err, s |-> s]
               ELSE createTasksFromPostfix(s, exprID, y.output)

\* SubmitExpression that forgets an expression whose compilation failed
SubmitExpression_DropsFailed(s, rawExpression) ==
  LET expression == StripSpaces(rawExpression)
      id   == Len(s.expressions) + 1
      expr == [ID |-> id, Expression |-> expression, Status |-> "pending",
               Result |-> <<>>]
      s0   == [s EXCEPT !.expressions = Append(@, expr)]
      p    == parseExpression(s0, id, expression)
  IN  IF p.err # ""
      THEN [id |-> 0, err |-> p.err, s |-> s]
      ELSE [id |-> id, err |-> "",
            s |-> [p.s EXCEPT !.expressions[id].Status = "in_process"]]

\* SubmitExpression: [id, err, s]; the id "" of the error return is 0
SubmitExpression(s, rawExpression) ==
  LET expression == StripSpaces(rawExpression)
      id   == Len(s.expressions) + 1
      expr == [ID |-> id, Expression |-> expression, Status |-> "pending",
               Result |-> <<>>]
      s0   == [s EXCEPT !.expressions = Append(@, expr)]
      p    == parseExpression(s0, id, expression)
  IN  IF p.err # ""
      THEN [id |-> 0, err |-> p.err,
            s |-> [p.s EXCEPT !.expressions[id].Status = "failed"]]
      ELSE [id |-> id, err |-> "",
            s |-> [p.s EXCEPT !.expressions[id].Status = "in_process"]]

\* the orders in which a range over a map of n entries can visit them
Perms(n) ==
  {p \in [1..n -> 1..n] : \A i, j \in 1..n : p[i] = p[j] => i = j}

\* GetExpressions leaving out the failed expressions
GetExpressions_SkipsFailed(s) ==
  LET kept == {e \in DOMAIN s.expressions : s.expressions[e].Status # "failed"}
  IN  {[i \in 1..Cardinality(kept) |-> s.expressions[p[i]]] :
         p \in {q \in [1..Cardinality(kept) -> kept] :
                  \A i, j \in 1..Cardinality(kept) : q[i] = q[j] => i = j}}

\* GetExpressions: the slices it can return, a copy of every expression in
\* the order of the range over s.expressions
GetExpressions(s) ==
  {[i \in 1..Len(s.expressions) |-> s.expressions[p[i]]] :
     p \in Perms(Len(s.expressions))}

\* GetTask emptying s.readyTasks
GetTask_ClearsReady(s, taskID) ==
  [s EXCEPT !.tasks[taskID].Status = "processing",
            !.readyTasks = {}]

\* GetTask without the delete from s.readyTasks
GetTask_KeepsReady(s, taskID) ==
  [s EXCEPT !.tasks[taskID].Status = "processing"]

\* GetTask, the iteration of the range over s.readyTasks that meets taskID
\* first: the store after the task is handed out
GetTask(s, taskID) ==
  [s EXCEPT !.tasks[taskID].Status = "processing",
            !.readyTasks = @ \ {taskID}]

\* updateDependencies' loop body without the check of the other dependencies
updateDependent_NoDepsCheck(s, taskID, result, depID) ==
  LET depTask == s.tasks[depID]
      a1 == IF depTask.Arg1 = TaskArg(taskID) THEN FmtArg(result) ELSE depTask.Arg1
      a2 == IF depTask.Arg2 = TaskArg(taskID) THEN FmtArg(result) ELSE depTask.Arg2
  IN  [s EXCEPT !.tasks[depID].Arg1 = a1,
                !.tasks[depID].Arg2 = a2,
                !.readyTasks = @ \cup {depID}]

\* the body of the loop of updateDependencies for one dependent
updateDependent(s, taskID, result, depID) ==
  LET depTask == s.tasks[depID]
      a1 == IF depTask.Arg1 = TaskArg(taskID) THEN FmtArg(result) ELSE depTask.Arg1
      a2 == IF depTask.Arg2 = TaskArg(taskID) THEN FmtArg(result) ELSE depTask.Arg2
      allDepsCompleted ==
        \A j \in 1..Len(depTask.Dependencies) :
           depTask.Dependencies[j] \in s.completedTasks
  IN  [s EXCEPT !.tasks[depID].Arg1 = a1,
                !.tasks[depID].Arg2 = a2,
                !.readyTasks = IF allDepsCompleted THEN @ \cup {depID} ELSE @]

\* updateDependencies, from the i-th dependent of taskID on
RECURSIVE updateDependenciesFrom(_, _, _, _)
updateDependenciesFrom(s, taskID, result, i) ==
  IF i > Len(s.reverseDependencies[taskID]) THEN s
  ELSE updateDependenciesFrom(
         updateDependent(s, taskID, result, s.reverseDependencies[taskID][i]),
         taskID, result, i + 1)

updateDependencies(s, taskID, result) == updateDependenciesFrom(s, taskID, result, 1)

\* the tasks of an expression, and those of them no task depends on
TasksOf(s, exprID) == {t \in DOMAIN s.tasks : s.tasks[t].ExpressionID = exprID}

RootsOf(s, exprID) ==
  {t \in TasksOf(s, exprID) : Len(s.reverseDependencies[t]) = 0}

\* updateExpressionStatus looking at the root task only
updateExpressionStatus_RootOnly(s, exprID) ==
  IF \A r \in RootsOf(s, exprID) : s.tasks[r].Result = <<>>
  THEN {s}
  ELSE {[s EXCEPT !.expressions[exprID].Status = "completed",
                  !.expressions[exprID].Result = s.tasks[r].Result] :
          r \in {q \in RootsOf(s, exprID) : s.tasks[q].Result # <<>>}}

\* updateExpressionStatus: the stores it can leave.  The range over the map
\* s.tasks visits the tasks in any order; with a task without result the loop
\* ends with allCompleted false, otherwise finalResult is the result of the
\* root visited last.
updateExpressionStatus(s, exprID) ==
  IF \E t \in TasksOf(s, exprID) : s.tasks[t].Result = <<>>
  THEN {s}
  ELSE IF RootsOf(s, exprID) = {}
  THEN {s}
  ELSE {[s EXCEPT !.expressions[exprID].Status = "completed",
                  !.expressions[exprID].Result = s.tasks[r].Result] :
          r \in RootsOf(s, exprID)}

\* task.Result = &result; s.completedTasks[id] = true
storeResult(s, id, result) ==
  [s EXCEPT !.tasks[id].Result = <<result>>,
            !.completedTasks = @ \cup {id}]

\* SetTaskResult for a known id: the stores it can leave
SetTaskResult(s, id, result) ==
  LET s1 == storeResult(s, id, result)
  IN  {updateDependencies(s2, id, result) :
         s2 \in updateExpressionStatus(s1, s1.tasks[id].ExpressionID)}

\* ProcessOperation subtracting the first argument from the second
ProcessOperation_SubtractsReversed(operation, arg1, arg2) ==
  IF operation = "+" THEN [err |-> "", val |-> RatAdd(arg1, arg2)]
  ELSE IF operation = "-" THEN [err |-> "", val |-> RatAdd(arg2, RatNeg(arg1))]
  ELSE IF operation = "*" THEN [err |-> "", val |-> RatMul(arg1, arg2)]
  ELSE IF operation = "/"
  THEN IF arg2 = Zero THEN [err |-> "division by zero", val |-> Zero]
       ELSE [err |-> "", val |-> RatMul(arg1, RatInv(arg2))]
  ELSE [err |-> "unknown operation", val |-> Zero]

\* ProcessOperation without the test of the divisor
ProcessOperation_NoZeroCheck(operation, arg1, arg2) ==
  IF operation = "+" THEN [err |-> "", val |-> RatAdd(arg1, arg2)]
  ELSE IF operation = "-" THEN [err |-> "", val |-> RatAdd(arg1, RatNeg(arg2))]
  ELSE IF operation = "*" THEN [err |-> "", val |-> RatMul(arg1, arg2)]
  ELSE IF operation = "/"
  THEN IF arg2 = Zero THEN [err |-> "", val |-> arg1]
       ELSE [err |-> "", val |-> RatMul(arg1, RatInv(arg2))]
  ELSE [err |-> "unknown operation", val |-> Zero]

\* ProcessOperation (the delay left out): [err, val]
ProcessOperation(operation, arg1, arg2) ==
  IF operation = "+" THEN [err |-> "", val |-> RatAdd(arg1, arg2)]
  ELSE IF operation = "-" THEN [err |-> "", val |-> RatAdd(arg1, RatNeg(arg2))]
  ELSE IF operation = "*" THEN [err |-> "", val |-> RatMul(arg1, arg2)]
  ELSE IF operation = "/"
  THEN IF arg2 = Zero THEN [err |-> "division by zero", val |-> Zero]
       ELSE [err |-> "", val |-> RatMul(arg1, RatInv(arg2))]
  ELSE [err |-> "unknown operation", val |-> Zero]

\* parseArg: strconv.ParseFloat of an operand slot, [ok, val]
parseArg(arg) ==
  IF arg.k = "tok" THEN ParseFloat(arg.chars)
  ELSE IF arg.k = "f" THEN [ok |-> TRUE, val |-> Rat(arg.micro, Scale)]
  ELSE [ok |-> FALSE, val |-> Zero]

\* processTask: [err, val]
processTask(task) ==
  LET arg1 == parseArg(task.Arg1)
      arg2 == parseArg(task.Arg2)
  IN  IF ~arg1.ok THEN [err |-> "invalid arg1", val |-> Zero]
      ELSE IF ~arg2.ok THEN [err |-> "invalid arg2", val |-> Zero]
      ELSE ProcessOperation(task.Operation, arg1.val, arg2.val)

-----------------------------------------------------------------------------
(* the request layer *)

\* ShouldBindJSON on ExpressionRequest without the binding tag
bindExpressionRequest_AcceptsEmpty(expression) == TRUE

\* ShouldBindJSON on ExpressionRequest: `binding:"required"` refuses the
\* empty text
bindExpressionRequest(expression) == expression # <<>>

\* ShouldBindJSON on TaskResultRequest: `binding:"required"` refuses the zero
\* value of a field, the result 0 included (the id "task_<k>" is never empty)
bindTaskResultRequest(id, result) == result # Zero

-----------------------------------------------------------------------------
(* bounds and inputs *)

\* submissions per run
MaxExprs == 2

\* tasks in the store
MaxTasks == 3

\* times one task is handed out before the run stops pulling it
MaxPullsPerTask == 2

\* callers of one burst of concurrent pulls
MaxCallers == 3

\* worker goroutines
NumWorkers == 2

\* the expression texts submitted to the Service
ExprPool ==
  { <<"2", "+", "2">>,
    <<" ", "2", "+", "2", "*", "2">>,
    <<"1", "*", "2", "+", "3", "*", "4">>,
    <<"2", "+", "+", "2">>,
    <<"(", "1", "+", "2", "*", "3", ")", "4">>,
    <<"2">> }

\* the expression texts posted to the request layer while the agents run
AgentExprPool ==
  { <<>>,
    <<"2", "+", "2", "*", "2">>,
    <<"1", "*", "2", "+", "3", "*", "4">>,
    <<"(", "8", "-", "2", ")", "/", "4">>,
    <<"1", "/", "3", "*", "3">>,
    <<"6", "/", "0">>,
    <<"2", "-", "2">>,
    <<"2", "+", "+", "2">> }

\* the results a caller of SetTaskResult sends
Values == {Rat(4, 1), Rat(1, 3)}

-----------------------------------------------------------------------------
(* state *)

VARIABLES
  s,             \* the Service
  lastOp,        \* the last call on the Service and what it returned
  pullCount,     \* per task: the successful GetTask calls that returned it
  readyEntries,  \* per task: the times it entered s.readyTasks
  depOrdered,    \* every SetTaskResult so far named a task whose dependencies
                 \* all had results
  burst,         \* a batch of concurrent GetTask calls
  agents,        \* per worker goroutine: where it is in Agent.worker
  reader,        \* a goroutine of Handler.GetExpression / GetExpressions:
                 \* the pointer it got and the fields it has read
  writer,        \* a SetTaskResult that holds s.mu between the two writes
                 \* of updateExpressionStatus: <<>> or <<the store it leaves>>
  call           \* the last call of ProcessOperation: arguments and return

vars == <<s, lastOp, pullCount, readyEntries, depOrdered, burst, agents,
          reader, writer, call>>

NoOp == [op |-> "none", task |-> 0, expr |-> 0, val |-> <<>>, err |-> ""]

NoBurst == [n |-> 0, left |-> 0, ready0 |-> {}, out |-> <<>>]

NoTask == [ID |-> 0, Arg1 |-> TokArg(<<>>), Arg2 |-> TokArg(<<>>), Operation |-> ""]

Idle == [pc |-> "getTask", task |-> NoTask, result |-> Zero]

NoReader == [pc |-> "idle", expr |-> 0, Status |-> "", Result |-> <<>>,
             list |-> <<>>]

NoCall == [operation |-> "", arg1 |-> Zero, arg2 |-> Zero, err |-> "", val |-> Zero]

\* a per-task counter extended to the tasks of the store s2
Extended(h, s2) == [t \in DOMAIN s2.tasks |-> IF t \in DOMAIN h THEN h[t] ELSE 0]

\* the counter of entries into the ready set after a step from s to s2
Entered(s2) ==
  [t \in DOMAIN s2.tasks |->
     Extended(readyEntries, s2)[t]
       + (IF t \in s2.readyTasks /\ t \notin s.readyTasks THEN 1 ELSE 0)]

Init ==
  /\ s = NewService
  /\ lastOp = NoOp
  /\ pullCount = <<>>
  /\ readyEntries = <<>>
  /\ depOrdered = TRUE
  /\ burst = NoBurst
  /\ agents = [w \in 1..NumWorkers |-> Idle]
  /\ reader = NoReader
  /\ writer = <<>>
  /\ call = NoCall

-----------------------------------------------------------------------------
(* the calls on the Service *)

\* Service.SubmitExpression
DoSubmit(expression) ==
  /\ Len(s.expressions) < MaxExprs
  /\ LET r == SubmitExpression(s, expression)
     IN  /\ r.s.taskIDCounter <= MaxTasks
         /\ s' = r.s
         /\ lastOp' = [op |-> "submit", task |-> 0, expr |-> r.id,
                       val |-> <<>>, err |-> r.err]
         /\ pullCount' = Extended(pullCount, r.s)
         /\ readyEntries' = Entered(r.s)
  /\ UNCHANGED <<depOrdered, reader, writer, call>>

\* Service.GetTask when the range over s.readyTasks yields taskID
DoPullTask(taskID) ==
  /\ taskID \in s.readyTasks
  /\ pullCount[taskID] < MaxPullsPerTask
  /\ s' = GetTask(s, taskID)
  /\ lastOp' = [op |-> "pull", task |-> taskID, expr |-> s.tasks[taskID].ExpressionID,
                val |-> <<>>, err |-> ""]
  /\ pullCount' = [pullCount EXCEPT ![taskID] = @ + 1]
  /\ UNCHANGED <<readyEntries, depOrdered, reader, writer, call>>

\* Service.GetTask on an empty ready set
DoPullNone ==
  /\ s.readyTasks = {}
  /\ lastOp' = [op |-> "pull", task |-> 0, expr |-> 0, val |-> <<>>,
                err |-> "no task available"]
  /\ UNCHANGED <<s, pullCount, readyEntries, depOrdered, reader, writer, call>>

\* Service.SetTaskResult writing s.completedTasks[id] before the lookup
DoRecord_MarksUnknown(id, result) ==
  IF id \notin DOMAIN s.tasks
  THEN /\ lastOp' = [op |-> "record", task |-> id, expr |-> 0, val |-> <<result>>,
                     err |-> "task not found"]
       /\ s' = [s EXCEPT !.completedTasks = @ \cup {id}]
       /\ UNCHANGED <<pullCount, readyEntries, depOrdered, reader, writer, call>>
  ELSE /\ \E s2 \in SetTaskResult(s, id, result) :
             /\ s' = s2
             /\ readyEntries' = Entered(s2)
       /\ lastOp' = [op |-> "record", task |-> id, expr |-> s.tasks[id].ExpressionID,
                     val |-> <<result>>, err |-> ""]
       /\ depOrdered' =
            (depOrdered /\ \A j \in 1..Len(s.tasks[id].Dependencies) :
                              s.tasks[s.tasks[id].Dependencies[j]].Result # <<>>)
       /\ UNCHANGED <<pullCount, reader, writer, call>>

\* Service.SetTaskResult
DoRecord(id, result) ==
  IF id \notin DOMAIN s.tasks
  THEN /\ lastOp' = [op |-> "record", task |-> id, expr |-> 0, val |-> <<result>>,
                     err |-> "task not found"]
       /\ UNCHANGED <<s, pullCount, readyEntries, depOrdered, reader, writer, call>>
  ELSE /\ \E s2 \in SetTaskResult(s, id, result) :
             /\ s' = s2
             /\ readyEntries' = Entered(s2)
       /\ lastOp' = [op |-> "record", task |-> id, expr |-> s.tasks[id].ExpressionID,
                     val |-> <<result>>, err |-> ""]
       /\ depOrdered' =
            (depOrdered /\ \A j \in 1..Len(s.tasks[id].Dependencies) :
                              s.tasks[s.tasks[id].Dependencies[j]].Result # <<>>)
       /\ UNCHANGED <<pullCount, reader, writer, call>>

\* Service.GetExpression as Handler.GetExpression answers it: the status is
\* read from the store, the result is returned in val
DoGetExpression(id) ==
  /\ lastOp' = IF id \in DOMAIN s.expressions
                THEN [op |-> "get", task |-> 0, expr |-> id,
                      val |-> s.expressions[id].Result, err |-> ""]
                ELSE [op |-> "get", task |-> 0, expr |-> id, val |-> <<>>,
                      err |-> "expression not found"]
  /\ UNCHANGED <<s, pullCount, readyEntries, depOrdered, reader, writer, call>>

-----------------------------------------------------------------------------
(* callers of the Service: any interleaving of its calls *)

Submit(expression) ==
  /\ DoSubmit(expression)
  /\ UNCHANGED <<burst, agents>>

Pull ==
  /\ \/ \E taskID \in s.readyTasks : DoPullTask(taskID)
     \/ DoPullNone
  /\ UNCHANGED <<burst, agents>>

Record(id, result) ==
  /\ DoRecord(id, result)
  /\ UNCHANGED <<burst, agents>>

Get(id) ==
  /\ DoGetExpression(id)
  /\ UNCHANGED <<burst, agents>>

Next ==
  \/ \E expression \in ExprPool : Submit(expression)
  \/ Pull
  \/ \E id \in 1..(s.taskIDCounter + 1), result \in Values : Record(id, result)
  \/ \E id \in 1..(Len(s.expressions) + 1) : Get(id)

Spec == Init /\ [][Next]_vars

-----------------------------------------------------------------------------
(* bursts of concurrent pulls: n callers enter GetTask together and take the *)
(* lock one after the other, nothing else running in between                *)

BurstSubmit(expression) ==
  /\ burst.left = 0
  /\ DoSubmit(expression)
  /\ burst' = NoBurst
  /\ UNCHANGED agents

BeginBurst(n) ==
  /\ burst.left = 0
  /\ burst' = [n |-> n, left |-> n, ready0 |-> s.readyTasks, out |-> <<>>]
  /\ lastOp' = NoOp
  /\ UNCHANGED <<s, pullCount, readyEntries, depOrdered, agents,
               reader, writer, call>>

BurstPull ==
  /\ burst.left > 0
  /\ \/ \E taskID \in s.readyTasks :
          /\ DoPullTask(taskID)
          /\ burst' = [burst EXCEPT !.left = @ - 1, !.out = Append(@, taskID)]
     \/ /\ DoPullNone
        /\ burst' = [burst EXCEPT !.left = @ - 1, !.out = Append(@, 0)]
  /\ UNCHANGED agents

\* a worker's result arrives between two bursts
BurstRecord(id) ==
  /\ burst.left = 0
  /\ id \in DOMAIN s.tasks
  /\ s.tasks[id].Status = "processing"
  /\ s.tasks[id].Result = <<>>
  /\ processTask(s.tasks[id]).err = ""
  /\ DoRecord(id, processTask(s.tasks[id]).val)
  /\ burst' = NoBurst
  /\ UNCHANGED agents

NextBurst ==
  \/ \E expression \in ExprPool : BurstSubmit(expression)
  \/ \E n \in 1..MaxCallers : BeginBurst(n)
  \/ BurstPull
  \/ \E id \in 1..s.taskIDCounter : BurstRecord(id)

BurstSpec == Init /\ [][NextBurst]_vars

-----------------------------------------------------------------------------
(* the request layer and the agents: expressions are posted to             *)
(* /api/v1/calculate, and only the worker goroutines of the agents call     *)
(* /internal/task                                                           *)

\* Handler.CalculateExpression
CalculateExpression(expression) ==
  /\ IF ~bindExpressionRequest(expression)
     THEN /\ lastOp' = [op |-> "submit", task |-> 0, expr |-> 0, val |-> <<>>,
                        err |-> "validation"]
          /\ UNCHANGED <<s, pullCount, readyEntries, depOrdered, reader, writer, call>>
     ELSE DoSubmit(expression)
  /\ UNCHANGED <<burst, agents>>

\* what a worker keeps of the task in the response of GET /internal/task
Snapshot(task) ==
  [ID |-> task.ID, Arg1 |-> task.Arg1, Arg2 |-> task.Arg2,
   Operation |-> task.Operation]

\* Agent.worker at a.getTask(): a task, or none and the worker sleeps
AgentGetTask(w) ==
  /\ agents[w].pc = "getTask"
  /\ \/ \E taskID \in s.readyTasks :
          /\ DoPullTask(taskID)
          /\ agents' = [agents EXCEPT ![w] =
               [pc |-> "process", task |-> Snapshot(s.tasks[taskID]), result |-> Zero]]
     \/ /\ DoPullNone
        /\ UNCHANGED agents
  /\ UNCHANGED burst

\* Agent.worker at a.processTask(task): on an error the task is dropped
AgentProcess(w) ==
  /\ agents[w].pc = "process"
  /\ LET r == processTask(agents[w].task)
     IN  agents' = [agents EXCEPT ![w] =
           IF r.err # "" THEN Idle
           ELSE [pc |-> "submit", task |-> agents[w].task, result |-> r.val]]
  /\ UNCHANGED <<s, lastOp, pullCount, readyEntries, depOrdered, burst,
               reader, writer, call>>

\* Agent.worker at a.submitResult: the request reaches Handler.SetTaskResult;
\* whatever the answer, the worker goes back to a.getTask()
AgentSubmit(w) ==
  /\ agents[w].pc = "submit"
  /\ IF ~bindTaskResultRequest(agents[w].task.ID, agents[w].result)
     THEN /\ lastOp' = [op |-> "record", task |-> agents[w].task.ID, expr |-> 0,
                        val |-> <<agents[w].result>>, err |-> "validation"]
          /\ UNCHANGED <<s, pullCount, readyEntries, depOrdered, reader, writer, call>>
     ELSE DoRecord(agents[w].task.ID, agents[w].result)
  /\ agents' = [agents EXCEPT ![w] = Idle]
  /\ UNCHANGED burst

\* Agent.worker at a.submitResult: a.client.Do fails before the request is
\* served; the error is logged and the worker goes back to a.getTask()
AgentSubmitFails(w) ==
  /\ agents[w].pc = "submit"
  /\ agents' = [agents EXCEPT ![w] = Idle]
  /\ UNCHANGED <<s, lastOp, pullCount, readyEntries, depOrdered, burst,
               reader, writer, call>>

NextAgents ==
  \/ \E expression \in AgentExprPool : CalculateExpression(expression)
  \/ \E w \in 1..NumWorkers : AgentGetTask(w)
  \/ \E w \in 1..NumWorkers : AgentProcess(w)
  \/ \E w \in 1..NumWorkers : AgentSubmit(w)
  \/ \E w \in 1..NumWorkers : AgentSubmitFails(w)

AgentSpec == Init /\ [][NextAgents]_vars

-----------------------------------------------------------------------------
(* readers: a goroutine of Handler.GetExpression reads the fields of the    *)
(* *ExpressionData it got after Service.GetExpression released s.mu, while  *)
(* SetTaskResult, holding s.mu, writes them in updateExpressionStatus       *)

\* the expression texts submitted while readers run
ReadPool ==
  { <<" ", "2", "+", "2">>,
    <<"2", "+", "+", "2">> }

ReadSubmit(expression) ==
  /\ writer = <<>>
  /\ DoSubmit(expression)
  /\ UNCHANGED <<burst, agents>>

ReadPull ==
  /\ writer = <<>>
  /\ \/ \E taskID \in s.readyTasks : DoPullTask(taskID)
     \/ DoPullNone
  /\ UNCHANGED <<burst, agents>>

\* SetTaskResult up to and including `expr.Status = Completed`
BeginRecord(id, result) ==
  /\ writer = <<>>
  /\ id \in DOMAIN s.tasks
  /\ \E s2 \in SetTaskResult(s, id, result) :
        LET e == s.tasks[id].ExpressionID
        IN  /\ s' = [storeResult(s, id, result) EXCEPT
                       !.expressions[e].Status = s2.expressions[e].Status]
            /\ writer' = <<[id |-> id, result |-> result, target |-> s2]>>
  /\ UNCHANGED <<lastOp, pullCount, readyEntries, depOrdered, burst, agents,
                 reader, call>>

\* the rest of SetTaskResult: `expr.Result = finalResult`, updateDependencies
\* and the release of s.mu
EndRecord ==
  /\ writer # <<>>
  /\ s' = writer[1].target
  /\ writer' = <<>>
  /\ readyEntries' = Entered(writer[1].target)
  /\ lastOp' = [op |-> "record", task |-> writer[1].id,
                expr |-> s.tasks[writer[1].id].ExpressionID,
                val |-> <<writer[1].result>>, err |-> ""]
  /\ depOrdered' =
       (depOrdered /\ \A j \in 1..Len(s.tasks[writer[1].id].Dependencies) :
                         s.tasks[s.tasks[writer[1].id].Dependencies[j]].Result # <<>>)
  /\ UNCHANGED <<pullCount, burst, agents, reader, call>>

\* Handler.GetExpression up to the return of Service.GetExpression
ReaderGet(id) ==
  /\ writer = <<>>
  /\ reader.pc \notin {"status", "result"}
  /\ reader' = IF id \in DOMAIN s.expressions
               THEN [NoReader EXCEPT !.pc = "status", !.expr = id]
               ELSE [NoReader EXCEPT !.pc = "notfound", !.expr = id]
  /\ UNCHANGED <<s, lastOp, pullCount, readyEntries, depOrdered, burst, agents,
                 writer, call>>

\* Handler.GetExpression reading expr.Status for the response
ReaderReadStatus ==
  /\ reader.pc = "status"
  /\ reader' = [reader EXCEPT !.pc = "result",
                              !.Status = s.expressions[reader.expr].Status]
  /\ UNCHANGED <<s, lastOp, pullCount, readyEntries, depOrdered, burst, agents,
                 writer, call>>

\* Handler.GetExpression reading expr.Result for the response
ReaderReadResult ==
  /\ reader.pc = "result"
  /\ reader' = [reader EXCEPT !.pc = "done",
                              !.Result = s.expressions[reader.expr].Result]
  /\ UNCHANGED <<s, lastOp, pullCount, readyEntries, depOrdered, burst, agents,
                 writer, call>>

\* Handler.GetExpressions: Service.GetExpressions copies every expression
\* under s.mu
ReaderList ==
  /\ writer = <<>>
  /\ reader.pc \notin {"status", "result"}
  /\ \E list \in GetExpressions(s) :
        reader' = [NoReader EXCEPT !.pc = "listed", !.list = list]
  /\ UNCHANGED <<s, lastOp, pullCount, readyEntries, depOrdered, burst, agents,
                 writer, call>>

NextRead ==
  \/ \E expression \in ReadPool : ReadSubmit(expression)
  \/ ReadPull
  \/ \E id \in 1..s.taskIDCounter, result \in Values : BeginRecord(id, result)
  \/ EndRecord
  \/ \E id \in 1..(Len(s.expressions) + 1) : ReaderGet(id)
  \/ ReaderReadStatus
  \/ ReaderReadResult
  \/ ReaderList

ReadSpec == Init /\ [][NextRead]_vars

-----------------------------------------------------------------------------
(* calls of ProcessOperation on any operation and arguments *)

\* the operations of the calls: the four of the package and two others
OperationPool == {"+", "-", "*", "/", "^", "unknown"}

\* the arguments of the calls
OperandPool == {Rat(0, 1), Rat(2, 1), Rat(-3, 1), Rat(1, 2), Rat(7, 3)}

Operate(operation, arg1, arg2) ==
  /\ call' = [operation |-> operation, arg1 |-> arg1, arg2 |-> arg2,
              err |-> ProcessOperation(operation, arg1, arg2).err,
              val |-> ProcessOperation(operation, arg1, arg2).val]
  /\ UNCHANGED <<s, lastOp, pullCount, readyEntries, depOrdered, burst, agents,
                 reader, writer>>

NextOperation ==
  \E operation \in OperationPool, arg1 \in OperandPool, arg2 \in OperandPool :
    Operate(operation, arg1, arg2)

OperationSpec == Init /\ [][NextOperation]_vars

-----------------------------------------------------------------------------
(* compilation: one submission of any text over the alphabet, to the empty  *)
(* store or to a store that already holds an earlier expression             *)

\* the characters of the submitted texts: digits, operators, parentheses and
\* a character tokenize refuses
Alphabet == {"2", "3", "+", "*", "(", ")", "a"}

\* the length of the submitted texts
MaxLen == 5

Texts == UNION {[1..n -> Alphabet] : n \in 0..MaxLen}

\* the expression a store may hold before the submission: one that compiled
\* and one whose build failed
SeedPool ==
  { <<"2", "+", "2">>,
    <<"(", "1", "+", "2", "*", "3", ")", "4">> }

\* an earlier SubmitExpression, its answer already delivered
Seed(expression) ==
  /\ s = NewService
  /\ lastOp = NoOp
  /\ LET r == SubmitExpression(s, expression)
     IN  /\ s' = r.s
         /\ pullCount' = Extended(pullCount, r.s)
         /\ readyEntries' = Entered(r.s)
  /\ UNCHANGED <<lastOp, depOrdered, burst, agents, reader, writer, call>>

\* Service.SubmitExpression on the text
CompileSubmit(text) ==
  /\ DoSubmit(text)
  /\ UNCHANGED <<burst, agents>>

NextCompile ==
  \/ \E expression \in SeedPool : Seed(expression)
  \/ lastOp = NoOp /\ \E text \in Texts : CompileSubmit(text)

CompileSpec == Init /\ [][NextCompile]_vars

-----------------------------------------------------------------------------
(* arithmetic texts: one submission, to the empty store, of any text over   *)
(* digits, the four operators and parentheses                               *)

InfixAlphabet == {"2", "3", "+", "-", "*", "/", "(", ")"}

InfixTexts == UNION {[1..n -> InfixAlphabet] : n \in 0..MaxLen}

InfixSubmit(text) ==
  /\ DoSubmit(text)
  /\ UNCHANGED <<burst, agents>>

NextInfix ==
  lastOp = NoOp /\ \E text \in InfixTexts : InfixSubmit(text)

InfixSpec == Init /\ [][NextInfix]_vars

-----------------------------------------------------------------------------
(* the value of an infix text by direct evaluation: * and / bind tighter    *)
(* than + and -, equal precedence associates to the left, parentheses       *)
(* override; [ok, val, pos]                                                 *)

RECURSIVE RefExpr(_, _)
RECURSIVE RefExprRest(_, _, _)
RECURSIVE RefTerm(_, _)
RECURSIVE RefTermRest(_, _, _)
RECURSIVE RefFactor(_, _)

RefFail == [ok |-> FALSE, val |-> Zero, pos |-> 0]

RefFactor(tk, i) ==
  IF i > Len(tk) THEN RefFail
  ELSE IF tk[i] = <<"(">>
  THEN LET r == RefExpr(tk, i + 1)
       IN  IF r.ok /\ r.pos <= Len(tk) /\ tk[r.pos] = <<")">>
           THEN [ok |-> TRUE, val |-> r.val, pos |-> r.pos + 1]
           ELSE RefFail
  ELSE IF ParseFloat(tk[i]).ok
  THEN [ok |-> TRUE, val |-> ParseFloat(tk[i]).val, pos |-> i + 1]
  ELSE RefFail

RefTermRest(tk, i, acc) ==
  IF i <= Len(tk) /\ (tk[i] = <<"*">> \/ tk[i] = <<"/">>)
  THEN LET f == RefFactor(tk, i + 1)
       IN  IF ~f.ok \/ (tk[i] = <<"/">> /\ f.val = Zero) THEN RefFail
           ELSE RefTermRest(tk, f.pos,
                  IF tk[i] = <<"*">> THEN RatMul(acc, f.val)
                  ELSE RatMul(acc, RatInv(f.val)))
  ELSE [ok |-> TRUE, val |-> acc, pos |-> i]

RefTerm(tk, i) ==
  LET f == RefFactor(tk, i)
  IN  IF f.ok THEN RefTermRest(tk, f.pos, f.val) ELSE RefFail

RefExprRest(tk, i, acc) ==
  IF i <= Len(tk) /\ (tk[i] = <<"+">> \/ tk[i] = <<"-">>)
  THEN LET f == RefTerm(tk, i + 1)
       IN  IF ~f.ok THEN RefFail
           ELSE RefExprRest(tk, f.pos,
                  IF tk[i] = <<"+">> THEN RatAdd(acc, f.val)
                  ELSE RatAdd(acc, RatNeg(f.val)))
  ELSE [ok |-> TRUE, val |-> acc, pos |-> i]

RefExpr(tk, i) ==
  LET f == RefTerm(tk, i)
  IN  IF f.ok THEN RefExprRest(tk, f.pos, f.val) ELSE RefFail

RefValue(text) ==
  LET tk == tokenize(text).tokens
      r  == RefExpr(tk, 1)
  IN  [ok |-> r.ok /\ r.pos = Len(tk) + 1, val |-> r.val]

-----------------------------------------------------------------------------
(* the claims *)

RecordedOk(op) == op.op = "record" /\ op.err = ""

PulledOk(op) == op.op = "pull" /\ op.err = ""

AllDepsRecorded(st, t) ==
  \A j \in 1..Len(st.tasks[t].Dependencies) :
     st.tasks[st.tasks[t].Dependencies[j]].Result # <<>>

\* SubmitExpression returned an id for the expression e: its text compiles
CompiledOk(e) == parseExpression(NewService, 1, s.expressions[e].Expression).err = ""

\* C1: under any interleaving of submit, pull and recordResult calls, repeated
\* recordResult calls for one task id included, no task id is returned by
\* more than one successful pull.
C1_NoTaskPulledTwice == \A t \in DOMAIN pullCount : pullCount[t] <= 1

\* C2: when N callers pull concurrently from a store holding M < N ready
\* tasks and nothing else interleaves, every one of the M tasks is returned to
\* exactly one caller and the other N - M callers are told that no task is
\* available.
C2_BurstHandsOutEachOnce ==
  (burst.n > 0 /\ burst.left = 0 /\ burst.n > Cardinality(burst.ready0)) =>
    /\ \A t \in burst.ready0 :
         Cardinality({i \in 1..Len(burst.out) : burst.out[i] = t}) = 1
    /\ Cardinality({i \in 1..Len(burst.out) : burst.out[i] = 0})
         = burst.n - Cardinality(burst.ready0)

\* a finished burst of three callers on two ready tasks
C2_Witness ==
  burst.n = 3 /\ burst.left = 0 /\ Cardinality(burst.ready0) = 2

\* C3: a task returned by pull has, when it is returned, a recorded result
\* for every id of its dependency set and a numeric literal, never a task id,
\* in both operand slots.
C3_PulledTaskIsResolved ==
  PulledOk(lastOp) =>
    /\ AllDepsRecorded(s, lastOp.task)
    /\ ~isTaskID(s.tasks, s.tasks[lastOp.task].Arg1)
    /\ ~isTaskID(s.tasks, s.tasks[lastOp.task].Arg2)
    /\ parseArg(s.tasks[lastOp.task].Arg1).ok
    /\ parseArg(s.tasks[lastOp.task].Arg2).ok

\* pull has returned a task that depends on two others
C3_Witness ==
  PulledOk(lastOp) /\ Len(s.tasks[lastOp.task].Dependencies) = 2

\* C4: after a successful recordResult(t, v) every dependent of t in the
\* reverse-dependency index holds v in exactly the operand slots that
\* referenced t, and the dependent is in the ready set after the step if and
\* only if all its dependencies have recorded results.
C4_DependentsHoldValue ==
  [][RecordedOk(lastOp') =>
       LET t == lastOp'.task
           v == lastOp'.val[1]
       IN  \A i \in 1..Len(s.reverseDependencies[t]) :
             LET d == s.reverseDependencies[t][i]
             IN  /\ IF s.tasks[d].Arg1 = TaskArg(t)
                    THEN parseArg(s'.tasks[d].Arg1) = [ok |-> TRUE, val |-> v]
                    ELSE s'.tasks[d].Arg1 = s.tasks[d].Arg1
                 /\ IF s.tasks[d].Arg2 = TaskArg(t)
                    THEN parseArg(s'.tasks[d].Arg2) = [ok |-> TRUE, val |-> v]
                    ELSE s'.tasks[d].Arg2 = s.tasks[d].Arg2
                 /\ (d \in s'.readyTasks <=> AllDepsRecorded(s', d))]_vars

\* C5: when recordResult stores v for the root task of an in-process
\* expression, the expression is completed with result v by the same call.
C5_RootResultCompletes ==
  [][(/\ RecordedOk(lastOp')
      /\ lastOp'.task \in RootsOf(s, lastOp'.expr)
      /\ s.expressions[lastOp'.expr].Status = "in_process")
       => /\ s'.expressions[lastOp'.expr].Status = "completed"
          /\ s'.expressions[lastOp'.expr].Result = lastOp'.val]_vars

\* C6: in every reachable state an expression is completed if and only if
\* every task of it has a recorded result and the result of the expression is
\* the result of its root task.
C6_CompletedIffAllRecorded ==
  \A e \in DOMAIN s.expressions :
    s.expressions[e].Status = "completed" <=>
      /\ \A t \in TasksOf(s, e) : s.tasks[t].Result # <<>>
      /\ \E r \in RootsOf(s, e) :
            /\ s.tasks[r].Result # <<>>
            /\ s.expressions[e].Result = s.tasks[r].Result

\* an expression of more than one task is completed
C6_Witness ==
  \E e \in DOMAIN s.expressions :
    s.expressions[e].Status = "completed" /\ Cardinality(TasksOf(s, e)) >= 2

\* C7: when every worker reports for every pulled task the exact value of
\* operandA op operandB, a completed expression that compiled successfully
\* has as result the value of its infix text evaluated directly.
C7_ResultIsInfixValue ==
  \A e \in DOMAIN s.expressions :
    (s.expressions[e].Status = "completed" /\ CompiledOk(e)) =>
      /\ RefValue(s.expressions[e].Expression).ok
      /\ s.expressions[e].Result = <<RefValue(s.expressions[e].Expression).val>>

\* C8: for every sequence of recordResult calls that respects the dependency
\* order, every task of a successfully compiled expression enters the ready
\* set exactly once and is returned by exactly one pull.
C8_ReadyOncePulledOnce ==
  depOrdered =>
    \A t \in DOMAIN s.tasks :
      CompiledOk(s.tasks[t].ExpressionID) =>
        /\ readyEntries[t] <= 1
        /\ pullCount[t] <= 1
        /\ (s.tasks[t].Result # <<>> /\ t \notin s.readyTasks) =>
              (readyEntries[t] = 1 /\ pullCount[t] = 1)

\* C9: a successful recordResult for a task is preceded by a successful pull
\* that returned the task.
C9_PullPrecedesRecord ==
  RecordedOk(lastOp) => pullCount[lastOp.task] >= 1

\* C10: the status of a task moves only from pending to processing (pull)
\* and from processing to done (recordResult), and after a successful
\* recordResult(t, v) the task t has status done and result v.
C10_RecordMarksDone ==
  [][/\ \A t \in DOMAIN s.tasks :
          \/ s'.tasks[t].Status = s.tasks[t].Status
          \/ s.tasks[t].Status = "pending" /\ s'.tasks[t].Status = "processing"
          \/ s.tasks[t].Status = "processing" /\ s'.tasks[t].Status = "done"
     /\ RecordedOk(lastOp') =>
          /\ s'.tasks[lastOp'.task].Status = "done"
          /\ s'.tasks[lastOp'.task].Result = lastOp'.val]_vars

\* C11: once a task has a recorded result, no later operation, a second
\* recordResult for the same task id included, changes the result or the
\* status of that task.
C11_DoneIsTerminal ==
  [][\A t \in DOMAIN s.tasks :
        s.tasks[t].Result # <<>> =>
          /\ s'.tasks[t].Result = s.tasks[t].Result
          /\ s'.tasks[t].Status = s.tasks[t].Status]_vars

\* the steps an expression status may take
StatusStep(a, b) ==
  \/ a = b
  \/ a = "pending" /\ b \in {"in_process", "failed"}
  \/ a = "in_process" /\ b = "completed"

\* C12: the status of an expression changes only along pending ->
\* in-process -> completed or pending -> failed, and a failed or completed
\* expression keeps its status under every later submit, pull and
\* recordResult.
C12_ExpressionStatusPath ==
  [][\A e \in DOMAIN s.expressions :
        StatusStep(s.expressions[e].Status, s'.expressions[e].Status)]_vars

\* the errors of createTasksFromPostfix
BuildErrors ==
  {"invalid expression: not enough operands for operator",
   "invalid expression: too many values left on stack"}

\* C13: when building the task graph from the postfix tokens fails, the task
\* map, the ready set, the reverse-dependency index and the task-id counter of
\* the store are what they were before the build started.
C13_FailedBuildLeavesStore ==
  [][(lastOp'.op = "submit" /\ lastOp'.err \in BuildErrors) =>
       /\ s'.tasks = s.tasks
       /\ s'.readyTasks = s.readyTasks
       /\ s'.reverseDependencies = s.reverseDependencies
       /\ s'.taskIDCounter = s.taskIDCounter]_vars

\* the errors of tokenize, shuntingYard and createTasksFromPostfix
CompileErrors ==
  {"invalid character in expression", "mismatched parentheses"} \cup BuildErrors

\* C14: when the compilation of a submitted expression fails, submit returns
\* an error carrying the reason and no expression id, and the expression is
\* nevertheless recorded in the store with status failed.
C14_FailedCompileRecorded ==
  [][(lastOp'.op = "submit" /\ lastOp'.err # "") =>
       /\ lastOp'.err \in CompileErrors
       /\ lastOp'.expr = 0
       /\ Len(s'.expressions) = Len(s.expressions) + 1
       /\ s'.expressions[Len(s'.expressions)].Status = "failed"
       /\ \A e \in DOMAIN s.expressions : s'.expressions[e] = s.expressions[e]]_vars

\* a submission refused for its parentheses, recorded next to an earlier
\* expression
C14_Witness ==
  /\ lastOp.op = "submit"
  /\ lastOp.err = "mismatched parentheses"
  /\ Len(s.expressions) = 2
  /\ s.expressions[2].Status = "failed"

\* C15: recordResult with an unknown task id fails with task-not-found, get
\* with an unknown expression id reports not-found, and neither changes the
\* tasks, the ready set, the completed set or the expressions.
C15_UnknownIdNotFound ==
  [][/\ (lastOp'.op = "record" /\ lastOp'.task \notin DOMAIN s.tasks) =>
          (lastOp'.err = "task not found" /\ s' = s)
     /\ (lastOp'.op = "get" /\ lastOp'.expr \notin DOMAIN s.expressions) =>
          (lastOp'.err = "expression not found" /\ s' = s)
     /\ lastOp'.err \in {"task not found", "expression not found"} => s' = s]_vars

\* recordResult has named an unknown task id while the store holds a task
\* with a result, and one still ready
C15_Witness ==
  /\ lastOp.op = "record"
  /\ lastOp.err = "task not found"
  /\ s.completedTasks # {}
  /\ s.readyTasks # {}

\* C16: submitting an empty expression text yields a validation error and
\* creates no expression: the stored expressions are the same before and
\* after the call.
C16_EmptyTextRefused ==
  [][CalculateExpression(<<>>) =>
       /\ lastOp'.op = "submit"
       /\ lastOp'.err = "validation"
       /\ s'.expressions = s.expressions
       /\ s' = s]_vars

\* the empty text has been refused by a store that holds an expression
C16_Witness ==
  /\ lastOp.op = "submit"
  /\ lastOp.err = "validation"
  /\ Len(s.expressions) >= 1

\* C17: every successfully compiled expression has exactly one task with no
\* dependents, its root task.
C17_ExactlyOneRoot ==
  \A e \in DOMAIN s.expressions :
    CompiledOk(e) => Cardinality(RootsOf(s, e)) = 1

\* C18: the dependency set of every task holds only ids of tasks of the same
\* expression that were created strictly earlier than the task, so no task
\* depends on an id not yet created and the dependency graph has no cycle.
C18_DependenciesEarlier ==
  \A t \in DOMAIN s.tasks :
    \A j \in 1..Len(s.tasks[t].Dependencies) :
      LET d == s.tasks[t].Dependencies[j]
      IN  /\ d \in DOMAIN s.tasks
          /\ d < t
          /\ s.tasks[d].ExpressionID = s.tasks[t].ExpressionID

\* the second expression of the store has a task with a dependency
C18_Witness ==
  \E t \in DOMAIN s.tasks :
    s.tasks[t].ExpressionID = 2 /\ Len(s.tasks[t].Dependencies) >= 1

\* the operand slots that hold the id of the task t
SlotsNaming(t) ==
  {sl \in (DOMAIN s.tasks) \X {1, 2} :
     (IF sl[2] = 1 THEN s.tasks[sl[1]].Arg1 ELSE s.tasks[sl[1]].Arg2) = TaskArg(t)}

\* C19: no task ever has more than one dependent: each task id is an operand
\* of at most one other task, so the graph of an expression is a tree.
C19_AtMostOneDependent ==
  \A t \in DOMAIN s.tasks :
    /\ Len(s.reverseDependencies[t]) <= 1
    /\ Cardinality(SlotsNaming(t)) <= 1

\* a task of a successfully submitted expression is an operand of another
C19_Witness ==
  /\ lastOp.op = "submit" /\ lastOp.err = ""
  /\ \E t \in TasksOf(s, lastOp.expr) :
        Len(s.reverseDependencies[t]) = 1 /\ Cardinality(SlotsNaming(t)) = 1

\* C20: immediately after a successful submit returns, the ready set holds
\* every newly created task whose operands are both literals and no newly
\* created task that has a task id as an operand.
C20_ReadyAtSubmit ==
  (lastOp.op = "submit" /\ lastOp.err = "") =>
    \A t \in TasksOf(s, lastOp.expr) :
      /\ (parseArg(s.tasks[t].Arg1).ok /\ parseArg(s.tasks[t].Arg2).ok)
            => t \in s.readyTasks
      /\ (isTaskID(s.tasks, s.tasks[t].Arg1) \/ isTaskID(s.tasks, s.tasks[t].Arg2))
            => t \notin s.readyTasks
      /\ parseArg(s.tasks[t].Arg1).ok # isTaskID(s.tasks, s.tasks[t].Arg1)
      /\ parseArg(s.tasks[t].Arg2).ok # isTaskID(s.tasks, s.tasks[t].Arg2)

\* a successful submit has created a task of literals and a task that waits
\* for it
C20_Witness ==
  /\ lastOp.op = "submit" /\ lastOp.err = ""
  /\ \E t, u \in TasksOf(s, lastOp.expr) :
        /\ t \in s.readyTasks
        /\ u \notin s.readyTasks
        /\ isTaskID(s.tasks, s.tasks[u].Arg1)

\* the task t divides by a literal zero
DividesByZero(t) ==
  /\ s.tasks[t].Operation = "/"
  /\ parseArg(s.tasks[t].Arg1).ok
  /\ parseArg(s.tasks[t].Arg2) = [ok |-> TRUE, val |-> Zero]

\* C21: for an expression whose evaluation divides by zero, once a worker
\* has pulled the division task and detected the division by zero, no result
\* is ever submitted for the task, the task is never handed out again and the
\* expression stays in-process for ever.
C21_DivisionByZeroStalls ==
  \A t \in DOMAIN s.tasks :
    (DividesByZero(t) /\ CompiledOk(s.tasks[t].ExpressionID)) =>
      /\ s.tasks[t].Result = <<>>
      /\ pullCount[t] <= 1
      /\ pullCount[t] = 1 => t \notin s.readyTasks
      /\ s.expressions[s.tasks[t].ExpressionID].Status = "in_process"
      /\ \A w \in 1..NumWorkers :
            agents[w].task.ID = t => agents[w].pc = "process"

\* the division task was pulled and dropped, and the workers, all back at
\* getTask, have since been told that no task is available
C21_Witness ==
  /\ \E t \in DOMAIN s.tasks : DividesByZero(t) /\ pullCount[t] = 1
  /\ \A w \in 1..NumWorkers : agents[w] = Idle
  /\ lastOp.op = "pull" /\ lastOp.err = "no task available"

\* C22: when the submission of a result fails with a transient communication
\* error the worker retries submitting the same result, without a cap, so
\* the result of a pulled task is recorded once communication recovers: a
\* worker that holds a computed result keeps it until it is recorded.
C22_ResultKeptUntilRecorded ==
  [][\A w \in 1..NumWorkers :
        (agents[w].pc = "submit" /\ agents[w].result # Zero) =>
          \/ agents'[w] = agents[w]
          \/ s'.tasks[agents[w].task.ID].Result = <<agents[w].result>>]_vars

\* C23: through the request layer, the submission of a result for a known
\* task id is acknowledged and recorded for every numeric result, 0 and
\* negative values included; not-found for an unknown id is the only failure.
C23_EveryResultAccepted ==
  lastOp.op = "record" =>
    /\ lastOp.err \in {"", "task not found"}
    /\ lastOp.task \in DOMAIN s.tasks =>
          (lastOp.err = "" /\ s.tasks[lastOp.task].Result = lastOp.val)

\* C24: get(expressionId) returns a snapshot: a caller that reads the
\* returned expression while a recordResult runs never observes the status
\* completed without a result, nor a result with a status other than
\* completed.
C24_GetIsSnapshot ==
  reader.pc = "done" =>
    (reader.Status = "completed" <=> reader.Result # <<>>)

\* the slice holds one entry for every expression of the store st, equal to
\* that expression, and nothing else
ListsExactly(list, st) ==
  /\ Len(list) = Len(st.expressions)
  /\ \A e \in DOMAIN st.expressions :
        /\ Cardinality({i \in 1..Len(list) : list[i].ID = e}) = 1
        /\ \A i \in 1..Len(list) :
              list[i].ID = e =>
                /\ list[i].Expression = st.expressions[e].Expression
                /\ list[i].Status = st.expressions[e].Status
                /\ list[i].Result = st.expressions[e].Result

\* C25: list returns exactly one entry for every expression submit ever put
\* into the store, failed ones included, and no other entry; each entry
\* carries the stripped text, the status and the result of its expression.
C25_ListIsComplete ==
  [][/\ (reader' # reader /\ reader'.pc = "listed") =>
          ListsExactly(reader'.list, s')
     /\ Len(s'.expressions) >= Len(s.expressions)
     /\ \A e \in DOMAIN s.expressions :
          /\ s'.expressions[e].ID = e
          /\ s'.expressions[e].Expression = s.expressions[e].Expression
          /\ \A k \in 1..Len(s.expressions[e].Expression) :
                s.expressions[e].Expression[k] # " "]_vars

\* a list of two expressions, one failed and one completed
C25_Witness ==
  /\ reader.pc = "listed"
  /\ Len(reader.list) = 2
  /\ \E i, j \in 1..2 :
        /\ reader.list[i].Status = "failed"
        /\ reader.list[j].Status = "completed"
        /\ reader.list[j].Result # <<>>

\* C26: task ids are unique process-wide: across all submissions, those
\* whose compilation failed included, no two tasks share an id.
C26_TaskIdsUnique ==
  /\ \A t, u \in DOMAIN s.tasks : t # u => s.tasks[t].ID # s.tasks[u].ID
  /\ \A t \in DOMAIN s.tasks : s.tasks[t].ID \in 1..s.taskIDCounter

\* the store holds tasks of two submissions, the first of them failed
C26_Witness ==
  /\ Len(s.expressions) = 2
  /\ s.expressions[1].Status = "failed"
  /\ \E t, u \in DOMAIN s.tasks :
        s.tasks[t].ExpressionID = 1 /\ s.tasks[u].ExpressionID = 2

\* C27: ProcessOperation returns arg1 op arg2 with no error for +, -, * and
\* for / with a non-zero divisor, and returns an error for the division by
\* zero and for every operation outside {+, -, *, /}.  The value is stated on
\* the numerators and denominators: val = x/y is val.n * y = x * val.d.
C27_ProcessOperation ==
  call.operation # "" =>
    LET a == call.arg1
        b == call.arg2
        v == call.val
    IN  /\ call.operation = "+" =>
              (call.err = "" /\ v.n * (a.d * b.d) = (a.n * b.d + b.n * a.d) * v.d)
        /\ call.operation = "-" =>
              (call.err = "" /\ v.n * (a.d * b.d) = (a.n * b.d - b.n * a.d) * v.d)
        /\ call.operation = "*" =>
              (call.err = "" /\ v.n * (a.d * b.d) = (a.n * b.n) * v.d)
        /\ (call.operation = "/" /\ b.n # 0) =>
              (call.err = "" /\ v.n * (a.d * b.n) = (a.n * b.d) * v.d)
        /\ (call.operation = "/" /\ b.n = 0) => call.err # ""
        /\ call.operation \notin {"+", "-", "*", "/"} => call.err # ""
        /\ v.d > 0

\* a subtraction of two different arguments has been computed
C27_Witness ==
  /\ call.operation = "-"
  /\ call.arg1 = Rat(2, 1)
  /\ call.arg2 = Rat(7, 3)
  /\ call.err = ""

-----------------------------------------------------------------------------
(* the postfix form of a well-formed infix token stream, by the grammar     *)
(*   E ::= T { addop T }     T ::= F { mulop F }     F ::= number | ( E )    *)
(* with both levels associating to the left; [ok, out, pos]                 *)

RECURSIVE PostExpr(_, _)
RECURSIVE PostExprRest(_, _, _)
RECURSIVE PostTerm(_, _)
RECURSIVE PostTermRest(_, _, _)
RECURSIVE PostFactor(_, _)

PostFail == [ok |-> FALSE, out |-> <<>>, pos |-> 0]

PostFactor(tk, i) ==
  IF i > Len(tk) THEN PostFail
  ELSE IF tk[i] = <<"(">>
  THEN LET r == PostExpr(tk, i + 1)
       IN  IF r.ok /\ r.pos <= Len(tk) /\ tk[r.pos] = <<")">>
           THEN [ok |-> TRUE, out |-> r.out, pos |-> r.pos + 1]
           ELSE PostFail
  ELSE IF ParseFloat(tk[i]).ok
  THEN [ok |-> TRUE, out |-> <<tk[i]>>, pos |-> i + 1]
  ELSE PostFail

PostTermRest(tk, i, acc) ==
  IF i <= Len(tk) /\ (tk[i] = <<"*">> \/ tk[i] = <<"/">>)
  THEN LET f == PostFactor(tk, i + 1)
       IN  IF ~f.ok THEN PostFail
           ELSE PostTermRest(tk, f.pos, acc \o f.out \o <<tk[i]>>)
  ELSE [ok |-> TRUE, out |-> acc, pos |-> i]

PostTerm(tk, i) ==
  LET f == PostFactor(tk, i)
  IN  IF f.ok THEN PostTermRest(tk, f.pos, f.out) ELSE PostFail

PostExprRest(tk, i, acc) ==
  IF i <= Len(tk) /\ (tk[i] = <<"+">> \/ tk[i] = <<"-">>)
  THEN LET f == PostTerm(tk, i + 1)
       IN  IF ~f.ok THEN PostFail
           ELSE PostExprRest(tk, f.pos, acc \o f.out \o <<tk[i]>>)
  ELSE [ok |-> TRUE, out |-> acc, pos |-> i]

PostExpr(tk, i) ==
  LET f == PostTerm(tk, i)
  IN  IF f.ok THEN PostExprRest(tk, f.pos, f.out) ELSE PostFail

\* [ok, out]: ok when the whole stream is one well-formed expression
RefPostfix(tk) ==
  LET r == PostExpr(tk, 1)
  IN  [ok |-> r.ok /\ r.pos = Len(tk) + 1, out |-> r.out]

\* the tokens of the expression e of the store
TokensOf(e) == tokenize(s.expressions[e].Expression).tokens

\* C28: for every well-formed, balanced infix token stream the postfix
\* conversion pops an operator to the output exactly while the stack top is
\* an operator of precedence >= that of the incoming operator (+ - = 1,
\* * / = 2), so its output is the reference postfix form with both
\* precedence levels left-associative.
C28_PostfixIsReference ==
  \A e \in DOMAIN s.expressions :
    RefPostfix(TokensOf(e)).ok =>
      shuntingYard(TokensOf(e)) = [err |-> "", output |-> RefPostfix(TokensOf(e)).out]

\* a well-formed text with two operators of one level has been converted
C28_Witness ==
  \E e \in DOMAIN s.expressions :
    LET r == RefPostfix(TokensOf(e))
    IN  /\ r.ok
        /\ Len(r.out) = 5
        /\ isOperator(r.out[3]) /\ isOperator(r.out[5])
        /\ r.out[3] # r.out[5]
        /\ getPrecedence(r.out[3]) = getPrecedence(r.out[5])

\* the depth of parentheses after each token never drops below zero and is
\* zero after the last
RECURSIVE BalancedFrom(_, _, _)
BalancedFrom(tk, i, depth) ==
  IF i > Len(tk) THEN depth = 0
  ELSE IF tk[i] = <<"(">> THEN BalancedFrom(tk, i + 1, depth + 1)
  ELSE IF tk[i] = <<")">> THEN depth > 0 /\ BalancedFrom(tk, i + 1, depth - 1)
  ELSE BalancedFrom(tk, i + 1, depth)

\* C29: the postfix conversion fails with 'mismatched parentheses' for every
\* token stream whose parentheses are unbalanced (a ')' with no '(' open
\* before it, or a '(' never closed) and never fails with that error on a
\* stream whose parentheses are balanced.
C29_MismatchIffUnbalanced ==
  \A e \in DOMAIN s.expressions :
    (shuntingYard(TokensOf(e)).err = "mismatched parentheses")
      <=> ~BalancedFrom(TokensOf(e), 1, 0)

\* a text with as many ')' as '(' has been refused for its parentheses
C29_Witness ==
  /\ lastOp.op = "submit"
  /\ lastOp.err = "mismatched parentheses"
  /\ \E e \in DOMAIN s.expressions :
        /\ Cardinality({k \in 1..Len(TokensOf(e)) : TokensOf(e)[k] = <<"(">>}) = 1
        /\ Cardinality({k \in 1..Len(TokensOf(e)) : TokensOf(e)[k] = <<")">>}) = 1

\* the value of an operand slot and of a task of the store, computed from
\* the operands in the order the task holds them: [ok, val]
RECURSIVE TaskValue(_)
SlotValue(arg) ==
  IF arg.k = "task" THEN TaskValue(arg.id) ELSE parseArg(arg)

TaskValue(t) ==
  LET a == SlotValue(s.tasks[t].Arg1)
      b == SlotValue(s.tasks[t].Arg2)
      r == ProcessOperation(s.tasks[t].Operation, a.val, b.val)
  IN  IF a.ok /\ b.ok /\ r.err = "" THEN [ok |-> TRUE, val |-> r.val]
      ELSE [ok |-> FALSE, val |-> Zero]

\* C30: for each operator token of the postfix sequence the operand A of the
\* created task is the second-popped handle and the operand B the most
\* recently popped one, so a-b and a/b yield a task with A = a and B = b: a
\* text "a op b" gives the task (a, op, b), and the tasks of every
\* well-formed text compute, operands taken in their order, its value.
C30_OperandOrder ==
  \A e \in DOMAIN s.expressions :
    LET tk == TokensOf(e)
    IN  /\ (Len(tk) = 3 /\ isNumber(tk[1]) /\ isOperator(tk[2]) /\ isNumber(tk[3])) =>
              \E t \in DOMAIN s.tasks :
                /\ TasksOf(s, e) = {t}
                /\ s.tasks[t].Arg1 = TokArg(tk[1])
                /\ s.tasks[t].Operation = tk[2][1]
                /\ s.tasks[t].Arg2 = TokArg(tk[3])
        /\ (RefValue(s.expressions[e].Expression).ok /\ TasksOf(s, e) # {}) =>
              \A r \in RootsOf(s, e) :
                TaskValue(r) = [ok |-> TRUE,
                                val |-> RefValue(s.expressions[e].Expression).val]

\* a subtraction whose second operand is the result of a division
C30_Witness ==
  \E t, u \in DOMAIN s.tasks :
    /\ s.tasks[t].Operation = "-"
    /\ s.tasks[t].Arg1 = TokArg(<<"2">>)
    /\ s.tasks[t].Arg2 = TaskArg(u)
    /\ s.tasks[u].Operation = "/"
    /\ s.tasks[u].Arg1 = TokArg(<<"3">>)
    /\ s.tasks[u].Arg2 = TokArg(<<"2">>)

-----------------------------------------------------------------------------
\* C31: in every reachable state every member of the ready set is a task
\* with no recorded result, with status pending and with a recorded result
\* for every id of its dependency set; a task has left the ready set in the
\* step in which GetTask returned it.
C31_ReadySetInvariant ==
  /\ \A t \in s.readyTasks :
        /\ t \in DOMAIN s.tasks
        /\ s.tasks[t].Result = <<>>
        /\ s.tasks[t].Status = "pending"
        /\ AllDepsRecorded(s, t)
  /\ PulledOk(lastOp) => lastOp.task \notin s.readyTasks

-----------------------------------------------------------------------------
(* fair workers: every worker goroutine keeps running its loop, every       *)
(* request it sends is served, and no posted text divides by zero           *)

\* the expression texts posted while the fair workers run
FairExprPool ==
  { <<"2", "+", "2", "*", "2">>,
    <<"(", "8", "-", "2", ")", "/", "4">>,
    <<"1", "/", "3", "*", "3">>,
    <<"2", "-", "2">>,
    <<"2">>,
    <<"2", "+", "+", "2">> }

NextFair ==
  \/ \E expression \in FairExprPool : CalculateExpression(expression)
  \/ \E w \in 1..NumWorkers : AgentGetTask(w)
  \/ \E w \in 1..NumWorkers : AgentProcess(w)
  \/ \E w \in 1..NumWorkers : AgentSubmit(w)

\* the loop of Agent.worker never stops: a worker at a.getTask() asks again
\* (after its sleep), a worker holding a task processes it, a worker holding
\* a result submits it
FairSpec ==
  /\ Init
  /\ [][NextFair]_vars
  /\ \A w \in 1..NumWorkers :
        /\ WF_vars(AgentGetTask(w))
        /\ WF_vars(AgentProcess(w))
        /\ WF_vars(AgentSubmit(w))

\* C32: under fair workers that keep pulling and report the computed result
\* of every task they pulled (no division by zero, no lost request), every
\* expression SubmitExpression returned an id for eventually has status
\* completed.
C32_AcceptedEventuallyCompleted ==
  \A e \in 1..MaxExprs :
    (e \in DOMAIN s.expressions /\ s.expressions[e].Status = "in_process")
      ~> (e \in DOMAIN s.expressions /\ s.expressions[e].Status = "completed")

\* C33: GetTask and SetTaskResult acting on a task of expression E leave the
\* status and the result of every other expression, and the operands, the
\* results and the ready-set membership of the tasks of other expressions,
\* unchanged.
C33_OtherExpressionsUntouched ==
  [][(PulledOk(lastOp') \/ RecordedOk(lastOp')) =>
       /\ \A e \in DOMAIN s.expressions :
             e # lastOp'.expr =>
               /\ s'.expressions[e].Status = s.expressions[e].Status
               /\ s'.expressions[e].Result = s.expressions[e].Result
       /\ \A t \in DOMAIN s.tasks :
             s.tasks[t].ExpressionID # lastOp'.expr =>
               /\ s'.tasks[t].Arg1 = s.tasks[t].Arg1
               /\ s'.tasks[t].Arg2 = s.tasks[t].Arg2
               /\ s'.tasks[t].Result = s.tasks[t].Result
               /\ (t \in s'.readyTasks) <=> (t \in s.readyTasks)]_vars

\* a result has been recorded for a task of one expression, one of its
\* dependents has taken the value, and a task of another expression is in
\* the ready set
C33_Witness ==
  /\ RecordedOk(lastOp)
  /\ \E d \in DOMAIN s.tasks :
        /\ s.tasks[d].ExpressionID = lastOp.expr
        /\ \E j \in 1..Len(s.tasks[d].Dependencies) :
              s.tasks[d].Dependencies[j] = lastOp.task
        /\ d \in s.readyTasks
  /\ \E t \in s.readyTasks : s.tasks[t].ExpressionID # lastOp.expr

\* every task with a result has been returned by GetTask: what a run in
\* which results are recorded only for pulled tasks satisfies in every state
RecordedWerePulled ==
  \A t \in DOMAIN s.tasks : s.tasks[t].Result # <<>> => pullCount[t] >= 1

\* C34: as long as results are recorded only for tasks GetTask returned, a
\* task of an expression whose compilation failed is never a member of the
\* ready set and is never returned by GetTask.
C34_FailedTasksNeverReady ==
  RecordedWerePulled =>
    \A t \in DOMAIN s.tasks :
      ~CompiledOk(s.tasks[t].ExpressionID) =>
        /\ t \notin s.readyTasks
        /\ readyEntries[t] = 0
        /\ pullCount[t] = 0

\* a failed build has left a task with a dependent in the store, and a task
\* of another expression has been pulled and its result recorded
C34_Witness ==
  /\ RecordedWerePulled
  /\ \E t \in DOMAIN s.tasks :
        /\ ~CompiledOk(s.tasks[t].ExpressionID)
        /\ Len(s.reverseDependencies[t]) > 0
  /\ \E u \in DOMAIN s.tasks :
        /\ CompiledOk(s.tasks[u].ExpressionID)
        /\ pullCount[u] = 1
        /\ s.tasks[u].Result # <<>>

\* C35: once an expression is completed, its result never changes under any
\* later SubmitExpression, GetTask or SetTaskResult.
C35_CompletedResultFixed ==
  [][\A e \in DOMAIN s.expressions :
        s.expressions[e].Status = "completed" =>
          s'.expressions[e].Result = s.expressions[e].Result]_vars

-----------------------------------------------------------------------------
(* texts with decimal points: every text of up to MaxDotLen characters over *)
(* DotAlphabet is submitted to the empty Service                            *)

DotAlphabet == {"2", ".", "+", "(", ")"}

\* characters of a text with decimal points
MaxDotLen == 6

DotTexts == UNION {[1..n -> DotAlphabet] : n \in 0..MaxDotLen}

DotSubmit(text) ==
  /\ DoSubmit(text)
  /\ UNCHANGED <<burst, agents>>

NextDot ==
  lastOp = NoOp /\ \E text \in DotTexts : DotSubmit(text)

DotSpec == Init /\ [][NextDot]_vars

\* a token of digits and points that strconv.ParseFloat refuses
Malformed(token) ==
  /\ ~isNumber(token)
  /\ ~isOperator(token)
  /\ token # <<"(">>
  /\ token # <<")">>

\* C36: every token of the tokenizer is emitted to the postfix output,
\* consumed as a parenthesis or makes the compilation fail: the postfix
\* conversion drops no token, and no text with a malformed numeric token
\* (two decimal points, say) compiles.
C36_NoTokenDropped ==
  \A e \in DOMAIN s.expressions :
    LET tk == TokensOf(e)
        y  == shuntingYard(tk)
    IN  /\ s.expressions[e].Status # "failed" =>
              Len(y.output) =
                Cardinality({k \in 1..Len(tk) : tk[k] # <<"(">> /\ tk[k] # <<")">>})
        /\ (\E k \in 1..Len(tk) : Malformed(tk[k])) =>
              s.expressions[e].Status = "failed"

=============================================================================
